---- MODULE Spec2Model ----
(***************************************************************************)
(* Model of the lead registry of pa-chicken-leads: the LeadDB helper       *)
(* (collectors/db.py) and the collectors that drive it.                    *)
(*                                                                         *)
(* Tables are sequences of rows in insertion order.  A column that holds   *)
(* SQL NULL has the value NULL; a key that a Python dict does not contain  *)
(* has the value ABSENT.  Timestamps are readings of a logical clock that  *)
(* ticks once per executed operation.                                      *)
(***************************************************************************)
EXTENDS Integers, Sequences, FiniteSets, TLC

VARIABLES data_sources,   \* table data_sources: source id -> [name, last_successful_run]
          data_runs,      \* table data_runs: sequence of run rows, row i has id i
          farms,          \* table farms: sequence of farm rows, row i has id i
          farm_sources,   \* table farm_sources: sequence of provenance links
          clock,          \* logical time, one tick per operation
          last,           \* history: the operation executed last and its outcome
          prev,           \* history: the operation executed before last
          resolved,       \* history: <<source_name, external_id>> -> first farm_id returned (0: none yet)
          refresh_calls,  \* history: number of refresh_lead_scores calls
          pc,             \* run_all / collect(): position of the running collector
          run_id,         \* collect(): run_id returned by start_run
          farms_found,    \* collect(): the batch
          idx,            \* collect(): position of the loop over farms_found
          records_new,    \* collect(): counter
          records_updated,\* collect(): counter
          error_msg,      \* collect(): str(e) of the caught exception, NULL if none
          stats,          \* collect_nass.collect(): the county statistics, UNBOUND before assignment
          log,            \* history: the calls made by the running collect(), in order
          fault,          \* history: where the batch failed and the registry at that moment
          workers         \* concurrent callers of upsert_farm: position and locals of each

dbVars   == <<data_sources, data_runs, farms, farm_sources>>
histVars == <<clock, last, prev, resolved, refresh_calls>>
colVars  == <<pc, run_id, farms_found, idx, records_new, records_updated, error_msg,
              stats, log, fault>>
vars     == <<dbVars, histVars, colVars, workers>>

----------------------------------------------------------------------------
(* Values *)

NULL   == "NULL"        \* SQL NULL / Python None
ABSENT == "ABSENT"      \* key not present in a dict

\* Python truthiness of a dict lookup farm_data.get(k)
Truthy(v) == v \notin {ABSENT, NULL, ""}

\* The attribute keys of a candidate that the model follows
Keys == {"name", "county", "phone"}

----------------------------------------------------------------------------
(* Bounds *)

MaxUpserts == 3     \* number of upsert_farm calls in a behaviour of Spec
MaxRunOps  == 4     \* number of run operations in a behaviour of SpecRun
MaxBatch   == 2     \* largest number of candidates in a collected batch
MaxCalls   == 1     \* number of upsert_farm calls of each concurrent caller in SpecConc

----------------------------------------------------------------------------
(* Sources *)

DEP_SOURCE_NAME    == "PA DEP CAFO Permits"
NASS_SOURCE_NAME   == "USDA NASS Census"
MANUAL_SOURCE_NAME == "Manual Research"
UNREGISTERED       == "Unregistered Feed"

\* rows of data_sources after installation: one per collector
SourceIds == 1..3

InitSources ==
    [i \in SourceIds |->
        [name |-> CASE i = 1 -> DEP_SOURCE_NAME
                    [] i = 2 -> NASS_SOURCE_NAME
                    [] i = 3 -> MANUAL_SOURCE_NAME,
         last_successful_run |-> 0]]

RAISE == 0   \* get_source_id found no row: .single() raises

get_source_id_lenient(source_name) ==
    IF \E i \in DOMAIN data_sources : data_sources[i].name = source_name
    THEN CHOOSE i \in DOMAIN data_sources : data_sources[i].name = source_name
    ELSE 1

get_source_id(source_name) ==
    IF \E i \in DOMAIN data_sources : data_sources[i].name = source_name
    THEN CHOOSE i \in DOMAIN data_sources : data_sources[i].name = source_name
    ELSE RAISE

----------------------------------------------------------------------------
(* upsert_farm *)

\* the operation record kept in last / prev
NoOp == [op |-> "none"]

\* no candidate of the batch has failed
NoFault == [k |-> 0]

\* a local name that has not been assigned
UNBOUND == [bound |-> FALSE, rows |-> <<>>]

\* indices of the links that the stage-1 select returns
Stage1Rows_none(source_id, external_id) == {}

Stage1Rows(source_id, external_id) ==
    {i \in DOMAIN farm_sources :
        /\ farm_sources[i].source_id = source_id
        /\ farm_sources[i].external_id = external_id}

\* table.update(data).eq('id', farm_id): every key of data is written, None as NULL
UpdateFarm(rows, farm_id, data) ==
    [i \in DOMAIN rows |->
        IF rows[i].id = farm_id
        THEN [c \in DOMAIN rows[i] |->
                IF c \in Keys /\ data[c] # ABSENT THEN data[c] ELSE rows[i][c]]
        ELSE rows[i]]

\* stage 1: farm update with the candidate as given
Stage1Data(farm_data) == farm_data

\* stage 1: refresh last_seen and raw_data of the link of (farm_id, source_id)
TouchLink_bySource(rows, farm_id, source_id, raw_data, now) ==
    [i \in DOMAIN rows |->
        IF rows[i].source_id = source_id
        THEN [rows[i] EXCEPT !.last_seen = now, !.raw_data = raw_data]
        ELSE rows[i]]

TouchLink(rows, farm_id, source_id, raw_data, now) ==
    [i \in DOMAIN rows |->
        IF rows[i].farm_id = farm_id /\ rows[i].source_id = source_id
        THEN [rows[i] EXCEPT !.last_seen = now, !.raw_data = raw_data]
        ELSE rows[i]]

\* stage 2 guard
HasNameAndCounty_andPhone(farm_data) ==
    Truthy(farm_data["name"]) /\ Truthy(farm_data["county"]) /\ Truthy(farm_data["phone"])

HasNameAndCounty(farm_data) == Truthy(farm_data["name"]) /\ Truthy(farm_data["county"])

\* ids of the farms that the stage-2 select returns
Stage2Rows(farm_data) ==
    {farms[i].id : i \in {j \in DOMAIN farms :
        /\ farms[j].name = farm_data["name"]
        /\ farms[j].county = farm_data["county"]}}

\* stage 2: update_data = {k: v for k, v in farm_data.items() if v is not None}
Stage2Data(farm_data) ==
    [k \in Keys |-> IF farm_data[k] = NULL THEN ABSENT ELSE farm_data[k]]

\* the conflict target of farm_sources: one row per (farm_id, source_id)
LinkConflicts(rows, row) ==
    {i \in DOMAIN rows : rows[i].farm_id = row.farm_id /\ rows[i].source_id = row.source_id}

\* table.upsert(row): insert, or overwrite the supplied columns of the conflicting row
TableUpsert(rows, row) ==
    IF LinkConflicts(rows, row) = {}
    THEN Append(rows, row)
    ELSE [i \in DOMAIN rows |-> IF i \in LinkConflicts(rows, row) THEN row ELSE rows[i]]

\* stage 2: link this source to the farm
Stage2Link_insert(rows, farm_id, source_id, external_id, raw_data, now) ==
    Append(rows, [farm_id |-> farm_id, source_id |-> source_id,
                  external_id |-> external_id, raw_data |-> raw_data, last_seen |-> now])

Stage2Link_bySource(rows, farm_id, source_id, external_id, raw_data, now) ==
    LET row == [farm_id |-> farm_id, source_id |-> source_id,
                external_id |-> external_id, raw_data |-> raw_data, last_seen |-> now]
    IN  IF \E i \in DOMAIN rows : rows[i].source_id = source_id
        THEN [i \in DOMAIN rows |-> IF rows[i].source_id = source_id THEN row ELSE rows[i]]
        ELSE Append(rows, row)

Stage2Link(rows, farm_id, source_id, external_id, raw_data, now) ==
    TableUpsert(rows, [farm_id |-> farm_id, source_id |-> source_id,
                       external_id |-> external_id, raw_data |-> raw_data, last_seen |-> now])

\* stage 3: farm_data['external_id'] = external_id; insert; keys not given are NULL
NewFarmRow_noPhone(farm_id, farm_data, external_id) ==
    [id |-> farm_id,
     name   |-> IF farm_data["name"] = ABSENT THEN NULL ELSE farm_data["name"],
     county |-> IF farm_data["county"] = ABSENT THEN NULL ELSE farm_data["county"],
     phone  |-> NULL,
     external_id |-> external_id]

NewFarmRow(farm_id, farm_data, external_id) ==
    [id |-> farm_id,
     name   |-> IF farm_data["name"] = ABSENT THEN NULL ELSE farm_data["name"],
     county |-> IF farm_data["county"] = ABSENT THEN NULL ELSE farm_data["county"],
     phone  |-> IF farm_data["phone"] = ABSENT THEN NULL ELSE farm_data["phone"],
     external_id |-> external_id]

\* stage 3: link source; last_seen takes the column default
NewLinkRow(farm_id, source_id, external_id, raw_data, now) ==
    [farm_id |-> farm_id, source_id |-> source_id,
     external_id |-> external_id, raw_data |-> raw_data, last_seen |-> now]

\* the record of an upsert_farm call kept in last
UpsertRecord(farm_data, source_name, external_id, raw_data, farm_id, is_new, stage, raised) ==
    [op |-> "upsert_farm", farm_data |-> farm_data, source_name |-> source_name,
     external_id |-> external_id, raw_data |-> raw_data,
     farm_id |-> farm_id, is_new |-> is_new,
     stage |-> stage, raised |-> raised,
     prior |-> resolved[<<source_name, external_id>>],
     had_link |-> farm_id # 0 /\ \E i \in DOMAIN farm_sources :
                    /\ farm_sources[i].farm_id = farm_id
                    /\ farm_sources[i].source_id = get_source_id(source_name),
     links_before |-> Len(farm_sources),
     farms_before |-> farms]

Resolve(source_name, external_id, farm_id) ==
    IF resolved[<<source_name, external_id>>] = 0
    THEN [resolved EXCEPT ![<<source_name, external_id>>] = farm_id]
    ELSE resolved

upsert_farm(farm_data, source_name, external_id, raw_data) ==
    LET source_id == get_source_id(source_name)
        existing  == Stage1Rows(source_id, external_id)
    IN  /\ clock' = clock + 1
        /\ prev' = last
        /\ UNCHANGED <<data_sources, data_runs, refresh_calls>>
        /\ IF source_id = RAISE
           THEN \* get_source_id raises before anything is written
                /\ UNCHANGED <<farms, farm_sources, resolved>>
                /\ last' = UpsertRecord(farm_data, source_name, external_id, raw_data, 0, FALSE, 0, TRUE)
           ELSE IF existing # {}
           THEN \* stage 1: existing.data[0]
                \E i \in existing :
                    LET farm_id == farm_sources[i].farm_id IN
                    /\ farms' = UpdateFarm(farms, farm_id, Stage1Data(farm_data))
                    /\ farm_sources' = TouchLink(farm_sources, farm_id, source_id, raw_data, clock + 1)
                    /\ resolved' = Resolve(source_name, external_id, farm_id)
                    /\ last' = UpsertRecord(farm_data, source_name, external_id, raw_data, farm_id, FALSE, 1, FALSE)
           ELSE IF HasNameAndCounty(farm_data) /\ Stage2Rows(farm_data) # {}
           THEN \* stage 2: existing.data[0], the select has no ORDER BY
                \E farm_id \in Stage2Rows(farm_data) :
                    /\ farms' = UpdateFarm(farms, farm_id, Stage2Data(farm_data))
                    /\ farm_sources' = Stage2Link(farm_sources, farm_id, source_id,
                                                  external_id, raw_data, clock + 1)
                    /\ resolved' = Resolve(source_name, external_id, farm_id)
                    /\ last' = UpsertRecord(farm_data, source_name, external_id, raw_data, farm_id, FALSE, 2, FALSE)
           ELSE \* stage 3: insert new farm, link source
                LET farm_id == Len(farms) + 1 IN
                    /\ farms' = Append(farms, NewFarmRow(farm_id, farm_data, external_id))
                    /\ farm_sources' = Append(farm_sources,
                            NewLinkRow(farm_id, source_id, external_id, raw_data, clock + 1))
                    /\ resolved' = Resolve(source_name, external_id, farm_id)
                    /\ last' = UpsertRecord(farm_data, source_name, external_id, raw_data, farm_id, TRUE, 3, FALSE)

----------------------------------------------------------------------------
(* start_run, complete_run, refresh_lead_scores *)

\* the row that start_run inserts into data_runs
NewRunRow_done(id, source_id, metadata) ==
    [id |-> id, source_id |-> source_id, status |-> "success", run_metadata |-> metadata,
     completed_at |-> 0, records_found |-> 0, records_new |-> 0, records_updated |-> 0,
     error_message |-> NULL]

NewRunRow(id, source_id, metadata) ==
    [id |-> id, source_id |-> source_id, status |-> "running", run_metadata |-> metadata,
     completed_at |-> 0, records_found |-> 0, records_new |-> 0, records_updated |-> 0,
     error_message |-> NULL]

start_run(source_name, metadata) ==
    LET source_id == get_source_id(source_name) IN
    /\ clock' = clock + 1
    /\ prev' = last
    /\ UNCHANGED <<data_sources, farms, farm_sources, resolved, refresh_calls>>
    /\ IF source_id = RAISE
       THEN /\ UNCHANGED data_runs
            /\ last' = [op |-> "start_run", source_name |-> source_name,
                        raised |-> TRUE, run_id |-> 0]
       ELSE /\ data_runs' = Append(data_runs, NewRunRow(Len(data_runs) + 1, source_id, metadata))
            /\ last' = [op |-> "start_run", source_name |-> source_name,
                        raised |-> FALSE, run_id |-> Len(data_runs) + 1]

\* status = 'failed' if error else 'success'
RunStatus_swapped(error) == IF Truthy(error) THEN "success" ELSE "failed"

RunStatus(error) == IF Truthy(error) THEN "failed" ELSE "success"

\* if not error: update last successful run on source
AdvancesSource_always(error) == TRUE

AdvancesSource(error) == ~Truthy(error)

\* the update of data_runs ... .eq('id', run_id)
CompleteRow(rows, id, records_found, new, updated, error, now) ==
    [i \in DOMAIN rows |->
        IF rows[i].id = id
        THEN [rows[i] EXCEPT !.completed_at = now,
                             !.status = RunStatus(error),
                             !.records_found = records_found,
                             !.records_new = new,
                             !.records_updated = updated,
                             !.error_message = error]
        ELSE rows[i]]

complete_run(id, records_found, new, updated, error) ==
    LET exists == \E i \in DOMAIN data_runs : data_runs[i].id = id
        row    == (CHOOSE i \in DOMAIN data_runs : data_runs[i].id = id)
    IN
    /\ clock' = clock + 1
    /\ prev' = last
    /\ UNCHANGED <<farms, farm_sources, resolved, refresh_calls>>
    /\ data_runs' = CompleteRow(data_runs, id, records_found, new, updated, error, clock + 1)
    /\ IF AdvancesSource(error) /\ exists
       THEN data_sources' = [data_sources EXCEPT
                ![data_runs[row].source_id].last_successful_run = clock + 1]
       ELSE UNCHANGED data_sources
    /\ last' = [op |-> "complete_run", run_id |-> id, error |-> error,
                existed |-> exists,
                \* select('source_id') ... .single() raises when the run does not exist
                raised |-> AdvancesSource(error) /\ ~exists]

\* rpc('refresh_lead_scores'): recomputes derived scores, which the model does not follow
refresh_lead_scores ==
    /\ clock' = clock + 1
    /\ prev' = last
    /\ refresh_calls' = refresh_calls + 1
    /\ UNCHANGED <<dbVars, resolved>>
    /\ last' = [op |-> "refresh_lead_scores", raised |-> FALSE]

----------------------------------------------------------------------------
(* The registry driven by direct upsert_farm calls *)

UpsertSourceNames == {DEP_SOURCE_NAME, MANUAL_SOURCE_NAME}
ExternalIds == {"X1", "X2"}

Cand(n, c, p) == [name |-> n, county |-> c, phone |-> p]

\* the processes that call upsert_farm on the same database at the same time
Workers == {1, 2}

NoCall == [farm_data |-> Cand(ABSENT, ABSENT, ABSENT), source_name |-> UNREGISTERED,
           external_id |-> ""]

IdleWorker == [pc |-> "idle", call |-> NoCall, source_id |-> 0, farm_id |-> 0,
               is_new |-> FALSE, conflict |-> FALSE, calls |-> 0]

IdleWorkers == [w \in Workers |-> IdleWorker]

Candidates ==
    {Cand(n, "Franklin", p) : n \in {"F", "G"}, p \in {ABSENT, NULL, "717-555-0100"}}
    \cup {Cand(ABSENT, ABSENT, p) : p \in {ABSENT, "717-555-0100"}}
    \cup {Cand("F", "", ABSENT)}

Init ==
    /\ data_sources = InitSources
    /\ data_runs = <<>>
    /\ farms = <<>>
    /\ farm_sources = <<>>
    /\ clock = 0
    /\ last = NoOp
    /\ prev = NoOp
    /\ resolved = [k \in (UpsertSourceNames \cup {UNREGISTERED}) \X ExternalIds |-> 0]
    /\ refresh_calls = 0
    /\ pc = "idle"
    /\ run_id = 0
    /\ farms_found = <<>>
    /\ idx = 0
    /\ records_new = 0
    /\ records_updated = 0
    /\ error_msg = NULL
    /\ stats = UNBOUND
    /\ log = <<>>
    /\ fault = NoFault
    /\ workers = IdleWorkers

UpsertFarm ==
    /\ clock < MaxUpserts
    /\ UNCHANGED <<colVars, workers>>
    /\ \E farm_data \in Candidates, source_name \in UpsertSourceNames, external_id \in ExternalIds :
          upsert_farm(farm_data, source_name, external_id, farm_data)

UpsertFarmUnregistered ==
    /\ clock < MaxUpserts
    /\ UNCHANGED <<colVars, workers>>
    /\ \E farm_data \in Candidates, external_id \in ExternalIds :
          upsert_farm(farm_data, UNREGISTERED, external_id, farm_data)

Next == UpsertFarm \/ UpsertFarmUnregistered

Spec == Init /\ [][Next]_vars

----------------------------------------------------------------------------
(* The run tracker driven by direct calls *)

RunSourceNames == {DEP_SOURCE_NAME, NASS_SOURCE_NAME}
RunErrors == {NULL, "", "timeout"}
RunCounts == {<<0, 0, 0>>, <<2, 1, 1>>}

StartRun ==
    /\ clock < MaxRunOps
    /\ UNCHANGED <<colVars, workers>>
    /\ \E source_name \in RunSourceNames : start_run(source_name, "meta")

StartRunUnregistered ==
    /\ clock < MaxRunOps
    /\ UNCHANGED <<colVars, workers>>
    /\ start_run(UNREGISTERED, "meta")

CompleteRun ==
    /\ clock < MaxRunOps
    /\ UNCHANGED <<colVars, workers>>
    /\ \E id \in 1..(Len(data_runs) + 1), c \in RunCounts, error \in RunErrors :
          complete_run(id, c[1], c[2], c[3], error)

RunUpsertFarm ==
    /\ clock < MaxRunOps
    /\ UNCHANGED <<colVars, workers>>
    /\ \E external_id \in ExternalIds :
          upsert_farm(Cand("F", "Franklin", ABSENT), DEP_SOURCE_NAME, external_id,
                      Cand("F", "Franklin", ABSENT))

RunRefresh ==
    /\ clock < MaxRunOps
    /\ UNCHANGED <<colVars, workers>>
    /\ refresh_lead_scores

NextRun == StartRun \/ StartRunUnregistered \/ CompleteRun \/ RunUpsertFarm \/ RunRefresh

SpecRun == Init /\ [][NextRun]_vars

----------------------------------------------------------------------------
(* run_all: the DEP collector, then the NASS collector *)

\* str(e) of the exceptions that the batch body can raise
ExcMessages == {"", "timeout"}

\* rows as parse_csv_report / get_known_pa_poultry_permits produce them
DepRow(x, n, c) == [external_id |-> x, farm_data |-> Cand(n, c, ABSENT)]

DepRows == {DepRow("PA0260274", "Hillside Poultry Farm", "Franklin"),
            DepRow("PA0229091", "Haladay Farm", "Columbia"),
            DepRow("", "Haladay Farm", "Columbia"),
            DepRow("", "", "Franklin")}

\* get_known_pa_poultry_permits()
KnownPermits == <<DepRow("PA0260274", "Hillside Poultry Farm", "Franklin"),
                  DepRow("PA0229091", "Haladay Farm", "Columbia")>>

\* if not farms_found: ... farms_found = get_known_pa_poultry_permits()
\* (scrape_dep_cafo_html in between returns no rows)
Fallback_none(found) == found

Fallback(found) == IF found = <<>> THEN KnownPermits ELSE found

\* external_id = farm_data.pop('external_id', f"unknown-{farm_data.get('name', 'farm')}")
PopExternalId(row) ==
    IF row.external_id = ABSENT
    THEN "unknown-" \o (IF row.farm_data["name"] = ABSENT THEN "farm" ELSE row.farm_data["name"])
    ELSE row.external_id

\* where control goes when the DEP collector returns or its exception reaches run_all
AfterDep_abort == "done"

AfterDep == "nass_start"

\* where control goes when the try block of collect() raises: the except clause, then complete_run
AfterRaise_escape == "nass_start"

AfterRaise == "dep_complete"

\* the messages of the ValueErrors that collect_nass.collect() raises
KeyMissingMessage_empty == ""

KeyMissingMessage ==
    "NASS API key not configured. Get a free key at https://quickstats.nass.usda.gov/api"

NoDataMessage == "No data returned from NASS API"

RECURSIVE SeqsUpTo(_, _)
SeqsUpTo(S, n) ==
    IF n = 0 THEN {<<>>}
    ELSE SeqsUpTo(S, n - 1) \cup
         {Append(q, x) : q \in {r \in SeqsUpTo(S, n - 1) : Len(r) = n - 1}, x \in S}

\* the poultry rows of a CSV export that was fetched
Batches == SeqsUpTo(DepRows, MaxBatch) \ {<<>>}

\* for farm_data in farms_found: the loop has consumed the batch
LoopDone_early(i, found) == i >= Len(found)

LoopDone(i, found) == i > Len(found)

Logged(e) == log' = Append(log, e)

DepStartRun ==
    /\ pc = "dep_start"
    /\ UNCHANGED workers
    /\ start_run(DEP_SOURCE_NAME, "meta")
    /\ run_id' = last'.run_id
    /\ farms_found' = <<>>
    /\ idx' = 0
    /\ records_new' = 0
    /\ records_updated' = 0
    /\ error_msg' = NULL
    /\ log' = <<"start_run">>
    /\ pc' = "dep_fetch"
    /\ UNCHANGED <<stats, fault>>

\* start_run is outside the try block: its exception leaves collect() and run_all catches it
DepStartRunRaises ==
    /\ pc = "dep_start"
    /\ UNCHANGED workers
    /\ pc' = AfterDep
    /\ log' = <<"start_run_raised">>
    /\ UNCHANGED <<dbVars, histVars, run_id, farms_found, idx, records_new, records_updated,
                   error_msg, stats, fault>>

DepFetch ==
    /\ pc = "dep_fetch"
    /\ UNCHANGED workers
    /\ \E batch \in Batches \cup {<<>>} : farms_found' = Fallback(batch)
    /\ idx' = 1
    /\ Logged("fetch")
    /\ pc' = "dep_loop"
    /\ UNCHANGED <<dbVars, histVars, run_id, records_new, records_updated, error_msg, stats, fault>>

\* fetch_cafo_report_csv and scrape_dep_cafo_html time out or get a non-200 response:
\* both swallow the failure and return nothing
DepFetchFails ==
    /\ pc = "dep_fetch"
    /\ UNCHANGED workers
    /\ farms_found' = Fallback(<<>>)
    /\ idx' = 1
    /\ Logged("csv_fetch_failed")
    /\ pc' = "dep_loop"
    /\ UNCHANGED <<dbVars, histVars, run_id, records_new, records_updated, error_msg, stats, fault>>

\* parse_csv_report raises inside the try block
DepFetchRaises ==
    /\ pc = "dep_fetch"
    /\ UNCHANGED workers
    /\ \E msg \in ExcMessages : error_msg' = msg
    /\ Logged("fetch_raised")
    /\ pc' = AfterRaise
    /\ UNCHANGED <<dbVars, histVars, run_id, farms_found, idx, records_new, records_updated,
                   stats, fault>>

DepUpsert ==
    /\ pc = "dep_loop"
    /\ UNCHANGED workers
    /\ ~LoopDone(idx, farms_found)
    /\ upsert_farm(farms_found[idx].farm_data, DEP_SOURCE_NAME, PopExternalId(farms_found[idx]),
                   farms_found[idx].farm_data)
    /\ records_new' = records_new + (IF last'.is_new THEN 1 ELSE 0)
    /\ records_updated' = records_updated + (IF last'.is_new THEN 0 ELSE 1)
    /\ idx' = idx + 1
    /\ Logged("upsert_farm")
    /\ UNCHANGED <<pc, run_id, farms_found, error_msg, stats, fault>>

\* upsert_farm raises before its first write
DepUpsertRaises ==
    /\ pc = "dep_loop"
    /\ UNCHANGED workers
    /\ ~LoopDone(idx, farms_found)
    /\ \E msg \in ExcMessages : error_msg' = msg
    /\ fault' = [k |-> idx, farms |-> farms, farm_sources |-> farm_sources]
    /\ Logged("upsert_farm_raised")
    /\ pc' = AfterRaise
    /\ UNCHANGED <<dbVars, histVars, run_id, farms_found, idx, records_new, records_updated, stats>>

DepRefresh ==
    /\ pc = "dep_loop"
    /\ UNCHANGED workers
    /\ LoopDone(idx, farms_found)
    /\ refresh_lead_scores
    /\ Logged("refresh_lead_scores")
    /\ pc' = "dep_complete"
    /\ UNCHANGED <<run_id, farms_found, idx, records_new, records_updated, error_msg, stats, fault>>

\* the rpc is called and raises
DepRefreshRaises ==
    /\ pc = "dep_loop"
    /\ UNCHANGED workers
    /\ LoopDone(idx, farms_found)
    /\ \E msg \in ExcMessages : error_msg' = msg
    /\ log' = log \o <<"refresh_lead_scores", "refresh_raised">>
    /\ pc' = AfterRaise
    /\ UNCHANGED <<dbVars, histVars, run_id, farms_found, idx, records_new, records_updated,
                   stats, fault>>

DepComplete ==
    /\ pc = "dep_complete"
    /\ UNCHANGED workers
    /\ complete_run(run_id, Len(farms_found), records_new, records_updated, error_msg)
    /\ Logged("complete_run")
    /\ pc' = AfterDep
    /\ UNCHANGED <<run_id, farms_found, idx, records_new, records_updated, error_msg, stats, fault>>

NassStartRun ==
    /\ pc = "nass_start"
    /\ UNCHANGED workers
    /\ start_run(NASS_SOURCE_NAME, "meta")
    /\ run_id' = last'.run_id
    /\ error_msg' = NULL
    /\ stats' = UNBOUND
    /\ log' = <<"start_run">>
    /\ pc' = "nass_body"
    /\ UNCHANGED <<farms_found, idx, records_new, records_updated, fault>>

NassStartRunRaises ==
    /\ pc = "nass_start"
    /\ UNCHANGED workers
    /\ pc' = "done"
    /\ log' = <<"start_run_raised">>
    /\ UNCHANGED <<dbVars, histVars, run_id, farms_found, idx, records_new, records_updated,
                   error_msg, stats, fault>>

\* raise ValueError("NASS API key not configured. ...") before stats is assigned
NassKeyMissing ==
    /\ pc = "nass_body"
    /\ UNCHANGED workers
    /\ error_msg' = KeyMissingMessage
    /\ Logged("key_missing")
    /\ pc' = "nass_complete"
    /\ UNCHANGED <<dbVars, histVars, run_id, farms_found, idx, records_new, records_updated,
                   stats, fault>>

\* stats = get_pa_poultry_stats(); an empty result raises ValueError
NassStats ==
    /\ pc = "nass_body"
    /\ UNCHANGED workers
    /\ \E n \in 0..MaxBatch :
          /\ stats' = [bound |-> TRUE, rows |-> [i \in 1..n |-> "county"]]
          /\ error_msg' = IF n = 0 THEN NoDataMessage ELSE NULL
    /\ Logged("stats")
    /\ pc' = "nass_complete"
    /\ UNCHANGED <<dbVars, histVars, run_id, farms_found, idx, records_new, records_updated, fault>>

\* the inventory query times out or gets a non-200 response: query_nass returns None,
\* get_pa_poultry_stats returns no rows and collect() raises ValueError
NassFetchFails ==
    /\ pc = "nass_body"
    /\ UNCHANGED workers
    /\ stats' = [bound |-> TRUE, rows |-> <<>>]
    /\ error_msg' = NoDataMessage
    /\ Logged("inventory_fetch_failed")
    /\ pc' = "nass_complete"
    /\ UNCHANGED <<dbVars, histVars, run_id, farms_found, idx, records_new, records_updated, fault>>

\* only the operations query fails: the inventory rows are returned without num_operations
NassOpsFetchFails ==
    /\ pc = "nass_body"
    /\ UNCHANGED workers
    /\ \E n \in 1..MaxBatch : stats' = [bound |-> TRUE, rows |-> [i \in 1..n |-> "county"]]
    /\ error_msg' = NULL
    /\ Logged("ops_fetch_failed")
    /\ pc' = "nass_complete"
    /\ UNCHANGED <<dbVars, histVars, run_id, farms_found, idx, records_new, records_updated, fault>>

\* len(stats) if 'stats' in dir() else 0
StatsFound == IF stats.bound THEN Len(stats.rows) ELSE 0

NassComplete ==
    /\ pc = "nass_complete"
    /\ UNCHANGED workers
    /\ complete_run(run_id, StatsFound, 0, 0, error_msg)
    /\ Logged("complete_run")
    /\ pc' = "done"
    /\ UNCHANGED <<run_id, farms_found, idx, records_new, records_updated, error_msg, stats, fault>>

InitCollect ==
    /\ data_sources = InitSources
    /\ data_runs = <<>>
    /\ farms = <<>>
    /\ farm_sources = <<>>
    /\ clock = 0
    /\ last = NoOp
    /\ prev = NoOp
    /\ resolved = [k \in {DEP_SOURCE_NAME} \X {PopExternalId(r) : r \in DepRows} |-> 0]
    /\ refresh_calls = 0
    /\ pc = "dep_start"
    /\ run_id = 0
    /\ farms_found = <<>>
    /\ idx = 0
    /\ records_new = 0
    /\ records_updated = 0
    /\ error_msg = NULL
    /\ stats = UNBOUND
    /\ log = <<>>
    /\ fault = NoFault
    /\ workers = IdleWorkers

NextCollect ==
    \/ DepStartRun \/ DepStartRunRaises \/ DepFetch \/ DepFetchFails \/ DepFetchRaises
    \/ DepUpsert \/ DepUpsertRaises \/ DepRefresh \/ DepRefreshRaises \/ DepComplete
    \/ NassStartRun \/ NassStartRunRaises \/ NassKeyMissing \/ NassStats
    \/ NassFetchFails \/ NassOpsFetchFails \/ NassComplete

SpecCollect == InitCollect /\ [][NextCollect]_vars

----------------------------------------------------------------------------
(* SpecConc: two processes call upsert_farm at the same time; every database
   request of upsert_farm is one step *)

ConcCalls ==
    {[farm_data |-> c, source_name |-> n, external_id |-> "X1"] :
        c \in {Cand("F", "Franklin", ABSENT), Cand(ABSENT, ABSENT, ABSENT)},
        n \in UpsertSourceNames}

\* the uniqueness constraints of farm_sources: (farm_id, source_id) and (source_id, external_id)
DuplicateKey(rows, row) ==
    \E i \in DOMAIN rows :
        \/ rows[i].source_id = row.source_id /\ rows[i].external_id = row.external_id
        \/ rows[i].farm_id = row.farm_id /\ rows[i].source_id = row.source_id

\* an upsert violates the constraint that is not its conflict target
UpsertDuplicateKey(rows, row) ==
    \E i \in DOMAIN rows \ LinkConflicts(rows, row) :
        rows[i].source_id = row.source_id /\ rows[i].external_id = row.external_id

\* what upsert_farm does with the exception of a rejected write: nothing, it
\* has no try block, so the exception leaves the call
OnConflict == "raised"

concFrame == <<data_sources, data_runs, last, prev, resolved, refresh_calls, colVars>>

Goto(w, rec) == workers' = [workers EXCEPT ![w] = rec]

\* source_id = self.get_source_id(source_name); the stage-1 select; if existing.data
ConcSelectLink(w) ==
    /\ workers[w].pc \in {"idle", "returned", "raised"}
    /\ workers[w].calls < MaxCalls
    /\ clock' = clock + 1
    /\ UNCHANGED <<farms, farm_sources, concFrame>>
    /\ \E call \in ConcCalls :
        LET source_id == get_source_id(call.source_name)
            existing  == Stage1Rows(source_id, call.external_id)
            started   == [IdleWorker EXCEPT !.call = call, !.source_id = source_id,
                                            !.calls = workers[w].calls + 1]
        IN  IF existing # {}
            THEN \E i \in existing :
                    Goto(w, [started EXCEPT !.pc = "s1_update_farm",
                                            !.farm_id = farm_sources[i].farm_id])
            ELSE IF HasNameAndCounty(call.farm_data)
            THEN Goto(w, [started EXCEPT !.pc = "s2_select"])
            ELSE Goto(w, [started EXCEPT !.pc = "s3_insert_farm"])

\* stage 1: table('farms').update(farm_data).eq('id', farm_id)
ConcS1UpdateFarm(w) ==
    /\ workers[w].pc = "s1_update_farm"
    /\ farms' = UpdateFarm(farms, workers[w].farm_id, Stage1Data(workers[w].call.farm_data))
    /\ Goto(w, [workers[w] EXCEPT !.pc = "s1_update_link"])
    /\ UNCHANGED <<farm_sources, clock, concFrame>>

\* stage 1: table('farm_sources').update(...); return farm_id, False
ConcS1UpdateLink(w) ==
    /\ workers[w].pc = "s1_update_link"
    /\ farm_sources' = TouchLink(farm_sources, workers[w].farm_id, workers[w].source_id,
                                 workers[w].call.farm_data, clock)
    /\ Goto(w, [workers[w] EXCEPT !.pc = "returned", !.is_new = FALSE])
    /\ UNCHANGED <<farms, clock, concFrame>>

\* the stage-2 select; if existing.data
ConcS2Select(w) ==
    /\ workers[w].pc = "s2_select"
    /\ LET existing == Stage2Rows(workers[w].call.farm_data) IN
        IF existing # {}
        THEN \E farm_id \in existing :
                Goto(w, [workers[w] EXCEPT !.pc = "s2_update_farm", !.farm_id = farm_id])
        ELSE Goto(w, [workers[w] EXCEPT !.pc = "s3_insert_farm"])
    /\ UNCHANGED <<farms, farm_sources, clock, concFrame>>

\* stage 2: table('farms').update(update_data).eq('id', farm_id)
ConcS2UpdateFarm(w) ==
    /\ workers[w].pc = "s2_update_farm"
    /\ farms' = UpdateFarm(farms, workers[w].farm_id, Stage2Data(workers[w].call.farm_data))
    /\ Goto(w, [workers[w] EXCEPT !.pc = "s2_upsert_link"])
    /\ UNCHANGED <<farm_sources, clock, concFrame>>

\* stage 2: table('farm_sources').upsert({...}); return farm_id, False
ConcS2UpsertLink(w) ==
    LET row == NewLinkRow(workers[w].farm_id, workers[w].source_id,
                          workers[w].call.external_id, workers[w].call.farm_data, clock)
    IN  /\ workers[w].pc = "s2_upsert_link"
        /\ IF UpsertDuplicateKey(farm_sources, row)
           THEN /\ UNCHANGED farm_sources
                /\ Goto(w, [workers[w] EXCEPT !.pc = OnConflict, !.conflict = TRUE])
           ELSE /\ farm_sources' = Stage2Link(farm_sources, workers[w].farm_id,
                                              workers[w].source_id, workers[w].call.external_id,
                                              workers[w].call.farm_data, clock)
                /\ Goto(w, [workers[w] EXCEPT !.pc = "returned", !.is_new = FALSE])
        /\ UNCHANGED <<farms, clock, concFrame>>

\* stage 3: farm_data['external_id'] = external_id; table('farms').insert(farm_data)
ConcS3InsertFarm(w) ==
    /\ workers[w].pc = "s3_insert_farm"
    /\ farms' = Append(farms, NewFarmRow(Len(farms) + 1, workers[w].call.farm_data,
                                         workers[w].call.external_id))
    /\ Goto(w, [workers[w] EXCEPT !.pc = "s3_insert_link", !.farm_id = Len(farms) + 1])
    /\ UNCHANGED <<farm_sources, clock, concFrame>>

\* stage 3: table('farm_sources').insert({...}); return farm_id, True
ConcS3InsertLink(w) ==
    LET row == NewLinkRow(workers[w].farm_id, workers[w].source_id,
                          workers[w].call.external_id, workers[w].call.farm_data, clock)
    IN  /\ workers[w].pc = "s3_insert_link"
        /\ IF DuplicateKey(farm_sources, row)
           THEN /\ UNCHANGED farm_sources
                /\ Goto(w, [workers[w] EXCEPT !.pc = OnConflict, !.conflict = TRUE])
           ELSE /\ farm_sources' = Append(farm_sources, row)
                /\ Goto(w, [workers[w] EXCEPT !.pc = "returned", !.is_new = TRUE])
        /\ UNCHANGED <<farms, clock, concFrame>>

\* the steps of upsert_farm that send a request to the database after the first select
PersistenceSteps == {"s1_update_farm", "s1_update_link", "s2_select", "s2_update_farm",
                     "s2_upsert_link", "s3_insert_farm", "s3_insert_link"}

\* .execute() raises (connection lost, timeout): nothing is written and, upsert_farm
\* having no try block, the exception leaves the call
ConcRequestFails(w) ==
    /\ workers[w].pc \in PersistenceSteps
    /\ Goto(w, [workers[w] EXCEPT !.pc = "raised"])
    /\ UNCHANGED <<farms, farm_sources, clock, concFrame>>

NextConc ==
    \E w \in Workers :
        \/ ConcSelectLink(w)
        \/ ConcRequestFails(w)
        \/ ConcS1UpdateFarm(w) \/ ConcS1UpdateLink(w)
        \/ ConcS2Select(w) \/ ConcS2UpdateFarm(w) \/ ConcS2UpsertLink(w)
        \/ ConcS3InsertFarm(w) \/ ConcS3InsertLink(w)

SpecConc == Init /\ [][NextConc]_vars

----------------------------------------------------------------------------
(* Properties of the registry (Spec) *)

LastUpsert == last.op = "upsert_farm" /\ ~last.raised
PrevUpsert == prev.op = "upsert_farm" /\ ~prev.raised

\* source ids of the registered source names
SourceIdOf(source_name) == CHOOSE i \in DOMAIN data_sources : data_sources[i].name = source_name

LinksOf(farm_id, source_id) ==
    {i \in DOMAIN farm_sources :
        farm_sources[i].farm_id = farm_id /\ farm_sources[i].source_id = source_id}

\* C1: once an upsert with a given (source, external_id) has returned entity e,
\* every later upsert with the same (source, external_id) returns e with
\* is_new = false.
C1_SameKeySameEntity ==
    (LastUpsert /\ last.prior # 0) => (last.farm_id = last.prior /\ ~last.is_new)

NonEmptyNameCounty(c) ==
    c["name"] \notin {ABSENT, NULL, ""} /\ c["county"] \notin {ABSENT, NULL, ""}

SameNameCounty ==
    /\ last.farm_data["name"] = prev.farm_data["name"]
    /\ last.farm_data["county"] = prev.farm_data["county"]

C2_Resolved ==
    /\ last.farm_id = prev.farm_id
    /\ ~last.is_new
    /\ Cardinality(LinksOf(last.farm_id, SourceIdOf(last.source_name))) = 1
    /\ Cardinality(LinksOf(last.farm_id, SourceIdOf(prev.source_name))) = 1

\* C2 as stated: two consecutive upserts from distinct sources whose candidates
\* share the same (name, county): the second returns the first's entity with
\* is_new = false and the entity has exactly one link per contributing source.
C2_SameNameCountyAnyCandidate ==
    (LastUpsert /\ PrevUpsert /\ last.source_name # prev.source_name /\ SameNameCounty)
        => C2_Resolved

\* farms that carried the (name, county) of the candidate before the last call
CarriersBefore ==
    {i \in DOMAIN last.farms_before :
        /\ last.farms_before[i].name = last.farm_data["name"]
        /\ last.farms_before[i].county = last.farm_data["county"]}

\* C2 amended: two consecutive upserts from distinct sources whose candidates
\* share the same non-empty name and non-empty county, where the second's
\* (source, external_id) is not yet linked to any entity and the first's entity
\* is the only one carrying that (name, county): the second returns the first's
\* entity with is_new = false and the entity then has exactly one link for each
\* of the two sources.
C2_SameNameCountyResolves ==
    (/\ LastUpsert /\ PrevUpsert
     /\ last.source_name # prev.source_name
     /\ SameNameCounty
     /\ NonEmptyNameCounty(last.farm_data)
     /\ last.stage # 1
     /\ CarriersBefore = {prev.farm_id})
        => C2_Resolved

C2_Witness ==
    /\ LastUpsert /\ PrevUpsert
    /\ last.source_name # prev.source_name
    /\ SameNameCounty
    /\ NonEmptyNameCounty(last.farm_data)
    /\ last.stage = 2
    /\ CarriersBefore = {prev.farm_id}
    /\ prev.is_new
    /\ Len(farm_sources) = 2

\* C3: on every upsert that matches an existing entity (stage 1 or stage 2),
\* for every key k: a non-null value of the entity is unchanged when the
\* candidate's value for k is null or absent.
C3_NonNullNeverNulled ==
    (LastUpsert /\ last.stage \in {1, 2}) =>
        \A k \in Keys :
            (/\ last.farms_before[last.farm_id][k] # NULL
             /\ last.farm_data[k] \in {NULL, ABSENT})
                => farms[last.farm_id][k] = last.farms_before[last.farm_id][k]

\* C4: for each source an external_id is linked to at most one entity: no two
\* provenance links have the same (source, external_id).
C4_ExternalIdUniquePerSource ==
    \A i, j \in DOMAIN farm_sources :
        (/\ farm_sources[i].source_id = farm_sources[j].source_id
         /\ farm_sources[i].external_id = farm_sources[j].external_id) => i = j

C4_Witness ==
    /\ LastUpsert /\ last.prior # 0
    /\ Len(farm_sources) >= 2
    /\ \E i, j \in DOMAIN farm_sources :
          i # j /\ farm_sources[i].external_id = farm_sources[j].external_id

\* C5: at most one provenance link per (entity, source); a repeated sighting of
\* an entity by a source updates the existing link's last_seen and raw payload
\* and adds no link.
C5_OneLinkPerEntitySource ==
    /\ \A i, j \in DOMAIN farm_sources :
          (/\ farm_sources[i].farm_id = farm_sources[j].farm_id
           /\ farm_sources[i].source_id = farm_sources[j].source_id) => i = j
    /\ (LastUpsert /\ last.had_link) =>
          /\ Len(farm_sources) = last.links_before
          /\ \A i \in LinksOf(last.farm_id, SourceIdOf(last.source_name)) :
                /\ farm_sources[i].last_seen = clock
                /\ farm_sources[i].raw_data = last.raw_data

C5_Witness ==
    /\ LastUpsert /\ last.had_link /\ last.stage = 2
    /\ \E i \in LinksOf(last.farm_id, SourceIdOf(last.source_name)) :
          farm_sources[i].raw_data # prev.raw_data

----------------------------------------------------------------------------
(* Properties of the run tracker (SpecRun) *)

Registered(source_name) == \E i \in DOMAIN data_sources : data_sources[i].name = source_name

\* C6: complete_run with no error sets the run's status to success and advances
\* the owning source's last_successful_run; with an error it sets the status to
\* failed and leaves every source's last_successful_run unchanged; no other
\* operation changes last_successful_run.
C6_CompleteRunOutcome ==
    [][ /\ (last'.op = "complete_run" /\ last'.existed /\ last'.error \in {NULL, ""}) =>
              /\ data_runs'[last'.run_id].status = "success"
              /\ \A i \in DOMAIN data_sources :
                    IF i = data_runs[last'.run_id].source_id
                    THEN /\ data_sources'[i].last_successful_run = clock'
                         /\ data_sources'[i].last_successful_run > data_sources[i].last_successful_run
                    ELSE data_sources'[i] = data_sources[i]
        /\ (last'.op = "complete_run" /\ last'.error \notin {NULL, ""}) =>
              /\ last'.existed => data_runs'[last'.run_id].status = "failed"
              /\ data_sources' = data_sources
        /\ (last'.op # "complete_run") => data_sources' = data_sources
      ]_vars

C6_Witness ==
    /\ last.op = "complete_run" /\ last.existed /\ last.error = NULL
    /\ prev.op = "complete_run" /\ prev.existed /\ prev.error = "timeout"
    /\ prev.run_id # last.run_id
    /\ data_sources[data_runs[last.run_id].source_id].last_successful_run = clock
    /\ data_runs[prev.run_id].status = "failed"

Terminal == {"success", "failed"}

\* C7: a run is created with status running; complete_run is the only operation
\* that changes a run's status and it always sets a terminal status; no
\* operation moves a run from success or failed back to running or creates a
\* run in a status other than running.
C7_RunStateMachine ==
    [][ /\ DOMAIN data_runs \subseteq DOMAIN data_runs'
        /\ \A i \in DOMAIN data_runs' \ DOMAIN data_runs :
              data_runs'[i].status = "running" /\ last'.op = "start_run"
        /\ \A i \in DOMAIN data_runs :
              /\ data_runs'[i].status # data_runs[i].status =>
                    last'.op = "complete_run" /\ last'.run_id = i
              /\ data_runs[i].status \in Terminal => data_runs'[i].status # "running"
        /\ (last'.op = "complete_run" /\ last'.existed) =>
              data_runs'[last'.run_id].status \in Terminal
      ]_vars

C7_Witness ==
    /\ last.op = "complete_run" /\ last.existed
    /\ data_runs[last.run_id].status = "failed"
    /\ prev.op = "complete_run" /\ prev.run_id = last.run_id /\ prev.error = NULL
    /\ \E i \in DOMAIN data_runs : data_runs[i].status = "running"

\* C9: start_run for a source name that is not registered fails and creates no
\* run; for a registered source it creates exactly one run, with status running,
\* linked to that source.
C9_StartRun ==
    [][ last'.op = "start_run" =>
          IF Registered(last'.source_name)
          THEN /\ ~last'.raised
               /\ Len(data_runs') = Len(data_runs) + 1
               /\ SubSeq(data_runs', 1, Len(data_runs)) = data_runs
               /\ data_runs'[Len(data_runs')].id = last'.run_id
               /\ data_runs'[Len(data_runs')].status = "running"
               /\ data_sources[data_runs'[Len(data_runs')].source_id].name = last'.source_name
          ELSE /\ last'.raised
               /\ data_runs' = data_runs
      ]_vars

C9_Witness ==
    /\ last.op = "start_run" /\ ~last.raised
    /\ prev.op = "start_run" /\ prev.raised
    /\ Len(data_runs) = 2
    /\ data_runs[2].status = "running"

----------------------------------------------------------------------------
(* Properties of the collectors (SpecCollect) *)

Range(f) == {f[i] : i \in DOMAIN f}

\* the running collect() has called complete_run
Completed == log # <<>> /\ log[Len(log)] = "complete_run"

\* the log is that of collect_dep_cafo.collect()
DepLog == Len(log) >= 2 /\ log[2] \in {"fetch", "csv_fetch_failed", "fetch_raised"}

RefreshAt == {i \in DOMAIN log : log[i] = "refresh_lead_scores"}
UpsertAt  == {i \in DOMAIN log : log[i] \in {"upsert_farm", "upsert_farm_raised"}}
RaisedAt  == {i \in DOMAIN log : log[i] \in {"fetch_raised", "upsert_farm_raised"}}

\* C8 as stated: for every batch whose run reaches a terminal status,
\* refresh_lead_scores is called exactly once, after the last upsert of the
\* batch and before complete_run records the terminal status.
C8_RefreshOncePerCompletedBatch ==
    (Completed /\ data_runs[run_id].status \in Terminal) =>
        /\ Cardinality(RefreshAt) = 1
        /\ \A r \in RefreshAt : r < Len(log) /\ \A u \in UpsertAt : u < r

\* C8 amended: for every DEP batch whose fetch and upserts raise no exception,
\* refresh_lead_scores is called exactly once, after every candidate of the
\* batch has been upserted and before complete_run records the run's terminal
\* status; a DEP batch whose fetch or upsert raises, and every NASS batch,
\* reaches its terminal status without a call of refresh_lead_scores.
C8_RefreshOnceAfterCleanDepBatch ==
    (Completed /\ data_runs[run_id].status \in Terminal) =>
        IF DepLog /\ RaisedAt = {}
        THEN /\ Cardinality(RefreshAt) = 1
             /\ Cardinality(UpsertAt) = Len(farms_found)
             /\ \A r \in RefreshAt : r < Len(log) /\ \A u \in UpsertAt : u < r
        ELSE RefreshAt = {}

C8_Witness ==
    /\ log = <<"start_run", "fetch", "upsert_farm", "upsert_farm",
               "refresh_lead_scores", "complete_run">>
    /\ data_runs[run_id].status = "success"
    /\ refresh_calls = 1

\* C10: if processing of the k-th candidate of a batch fails irrecoverably, the
\* changes made by the upserts of the first k-1 candidates remain in the
\* registry, the run ends with status failed, and its recorded
\* records_new + records_updated equals k-1.
C10_PartialBatchFailed ==
    (Completed /\ DepLog /\ fault.k # 0) =>
        /\ farms = fault.farms
        /\ farm_sources = fault.farm_sources
        /\ data_runs[run_id].status = "failed"
        /\ data_runs[run_id].records_new + data_runs[run_id].records_updated = fault.k - 1

\* the run that the running collect() started
OwnRun == data_runs[run_id]

\* the log is that of collect_nass.collect()
NassLog == Len(log) >= 2 /\ log[2] \in {"key_missing", "stats", "inventory_fetch_failed", "ops_fetch_failed"}

NassSourceId == get_source_id(NASS_SOURCE_NAME)

\* C11 as stated: when the credentials of an external collaborator are missing
\* (the NASS API key is not configured), the collection attempt is aborted and
\* no Run record is created for it.
C11_NoRunWhenKeyMissing ==
    ("key_missing" \in Range(log)) =>
        ~\E i \in DOMAIN data_runs : data_runs[i].source_id = NassSourceId

\* C11 amended: when the NASS API key is not configured, the collection attempt
\* is aborted after its Run record has been created: the run of the NASS source
\* exists, no statistics are fetched, and once collect() has returned the run
\* has status failed, records_found = 0 and the ValueError's message ("NASS API
\* key not configured. ...") as error_message, and the source's
\* last_successful_run has not advanced.
C11_KeyMissingRunFailed ==
    ("key_missing" \in Range(log)) =>
        /\ run_id \in DOMAIN data_runs
        /\ OwnRun.source_id = NassSourceId
        /\ ~stats.bound
        /\ OwnRun.status = IF Completed THEN "failed" ELSE "running"
        /\ Completed =>
            /\ OwnRun.error_message =
                "NASS API key not configured. Get a free key at https://quickstats.nass.usda.gov/api"
            /\ OwnRun.records_found = 0
            /\ data_sources[NassSourceId].last_successful_run = InitSources[NassSourceId].last_successful_run

C11_Witness ==
    /\ log = <<"start_run", "key_missing", "complete_run">>
    /\ pc = "done"
    /\ OwnRun.status = "failed"
    /\ OwnRun.source_id = NassSourceId

\* the fetches of the running collect() that timed out or got a non-200 response
FetchFailures == Range(log) \cap {"csv_fetch_failed", "inventory_fetch_failed", "ops_fetch_failed"}

\* the steps of the running collect() that raised into its except clause
BodyRaised == Range(log) \cap {"fetch_raised", "upsert_farm_raised", "refresh_raised"}

C13_InvalidCandidateSkipped ==
    (/\ DepLog
     /\ last.op = "upsert_farm"
     /\ ~NonEmptyNameCounty(last.farm_data)) =>
        /\ farms = last.farms_before
        /\ Len(farm_sources) = last.links_before

\* the positions of run_all inside collect_dep() and inside collect_nass()
DepPcs  == {"dep_start", "dep_fetch", "dep_loop", "dep_complete"}
NassPcs == {"nass_start", "nass_body", "nass_complete"}

\* C15: in run_all, a failure in one source's collector (an exception escaping
\* it or a run that ends failed) never prevents the next source's collector
\* from running: whatever the DEP collector did, control leaves it only into
\* the NASS collector, and an error_message is written only by the collector of
\* the run's own source, on the run it started, with the error of its own body.
C15_SiblingRunsIsolated ==
    [][/\ pc \in DepPcs => pc' \in DepPcs \cup {"nass_start"}
       /\ pc = "nass_start" => pc' \in NassPcs \cup {"done"}
       /\ \A i \in DOMAIN data_runs :
            data_runs'[i].error_message # data_runs[i].error_message =>
                /\ i = run_id
                /\ data_runs'[i].error_message = error_msg
                /\ data_runs[i].source_id =
                      IF pc \in DepPcs THEN SourceIdOf(DEP_SOURCE_NAME)
                                       ELSE SourceIdOf(NASS_SOURCE_NAME)]_vars

C15_Witness ==
    /\ pc = "done"
    /\ Len(data_runs) = 2
    /\ data_runs[1].source_id = SourceIdOf(DEP_SOURCE_NAME)
    /\ data_runs[1].status = "failed"
    /\ data_runs[1].error_message = "timeout"
    /\ data_runs[2].source_id = SourceIdOf(NASS_SOURCE_NAME)
    /\ data_runs[2].status = "success"
    /\ data_runs[2].error_message = NULL

\* the positions between start_run's return and the return of collect()
BodyPcs == {"dep_fetch", "dep_loop", "dep_complete", "nass_body", "nass_complete"}

CompleteAt == {i \in DOMAIN log : log[i] = "complete_run"}

\* C17: every run started by a collector's collect() is terminated exactly
\* once: on the normal path and on every path where the batch body raises an
\* Exception, complete_run is called exactly once for the run_id returned by
\* start_run, as the last step of collect(), so no run is left in status
\* running after collect() returns.
C17_RunTerminatedOnce ==
    /\ \A i \in DOMAIN data_runs :
          data_runs[i].status = "running" => i = run_id /\ pc \in BodyPcs
    /\ (log # <<>> /\ log[1] = "start_run") =>
          /\ CompleteAt \subseteq {Len(log)}
          /\ OwnRun.status \in Terminal <=> CompleteAt # {}
          /\ pc \notin BodyPcs => Cardinality(CompleteAt) = 1

C17_Witness ==
    /\ pc = "nass_start"
    /\ log = <<"start_run", "fetch", "upsert_farm", "upsert_farm_raised", "complete_run">>
    /\ OwnRun.status = "failed"

\* C20 (checked on the DEP collector): every candidate that the DEP collector or
\* the manual importer passes to upsert carries a
\* non-empty external_id that is unique within its source: two candidates of
\* the source that differ in name or county never carry the same external_id,
\* including candidates whose upstream record has no identifier.
C20_ExternalIdSynthesized ==
    (DepLog /\ last.op = "upsert_farm") =>
        /\ last.external_id # ""
        /\ (prev.op = "upsert_farm" /\ ~SameNameCounty) => last.external_id # prev.external_id

----------------------------------------------------------------------------
(* Further properties of upsert_farm (Spec) *)

FarmIds(rows) == {rows[i].id : i \in DOMAIN rows}

\* C16: no upsert merges or removes entities: across any sequence of upserts
\* the set of entity ids grows by exactly one when is_new = true and is
\* unchanged when is_new = false, no entity is ever deleted, and an existing
\* provenance link is never re-pointed from one entity to another.
C16_NoMergeNoDelete ==
    [][/\ FarmIds(farms) \subseteq FarmIds(farms')
       /\ Len(farms') = Cardinality(FarmIds(farms'))
       /\ (last'.op = "upsert_farm" /\ last'.is_new)
            => Cardinality(FarmIds(farms') \ FarmIds(farms)) = 1
       /\ (last'.op = "upsert_farm" /\ ~last'.is_new) => FarmIds(farms') = FarmIds(farms)
       /\ \A i \in DOMAIN farm_sources :
            /\ i \in DOMAIN farm_sources'
            /\ farm_sources'[i].farm_id = farm_sources[i].farm_id
            /\ farm_sources'[i].source_id = farm_sources[i].source_id
       /\ \A i \in DOMAIN farm_sources, j \in DOMAIN farm_sources' :
            (/\ farm_sources'[j].source_id = farm_sources[i].source_id
             /\ farm_sources'[j].external_id = farm_sources[i].external_id)
                => farm_sources'[j].farm_id = farm_sources[i].farm_id]_vars

C16_Witness ==
    /\ LastUpsert /\ ~last.is_new /\ last.stage = 2
    /\ Len(farms) = 2 /\ Len(last.farms_before) = 2
    /\ Len(farm_sources) = 3
    /\ \E i \in DOMAIN farm_sources : farm_sources[i].farm_id # last.farm_id

\* the entities that (source_name, external_id) is linked to
LinkedTo(source_name, external_id) ==
    {farm_sources[i].farm_id : i \in {j \in DOMAIN farm_sources :
        /\ farm_sources[j].source_id = SourceIdOf(source_name)
        /\ farm_sources[j].external_id = external_id}}

\* the entities other than a that carry the candidate's name and county
Namesakes(c, a) ==
    {farms[i].id : i \in {j \in DOMAIN farms :
        /\ farms[j].id # a
        /\ farms[j].name = c["name"]
        /\ farms[j].county = c["county"]}}

\* C18: resolution follows strict priority: when a candidate's
\* (source, external_id) is already linked to entity A and its name and county
\* equal those of a different entity B, upsert returns A with is_new = false,
\* updates only A and A's link for that source, and leaves B's attributes and
\* B's links unchanged.
C18_StrictPriority ==
    [][\A a \in FarmIds(farms) :
        (/\ last'.op = "upsert_farm" /\ ~last'.raised
         /\ a \in LinkedTo(last'.source_name, last'.external_id)
         /\ Namesakes(last'.farm_data, a) # {})
            => /\ last'.farm_id = a
               /\ ~last'.is_new
               /\ DOMAIN farms' = DOMAIN farms
               /\ \A i \in DOMAIN farms : farms[i].id # a => farms'[i] = farms[i]
               /\ DOMAIN farm_sources' = DOMAIN farm_sources
               /\ \A i \in DOMAIN farm_sources :
                    (\/ farm_sources[i].farm_id # a
                     \/ farm_sources[i].source_id # SourceIdOf(last'.source_name))
                        => farm_sources'[i] = farm_sources[i]]_vars

C18_Witness ==
    /\ LastUpsert /\ last.stage = 1
    /\ Len(last.farms_before) = Len(farms)
    /\ \E b \in Namesakes(last.farm_data, last.farm_id) :
          /\ last.farms_before[b].name = last.farm_data["name"]
          /\ last.farms_before[b].county = last.farm_data["county"]
          /\ LinksOf(b, SourceIdOf(last.source_name)) # {}

\* neither stage 1 nor stage 2 matches the call recorded in last'
NoStageMatches ==
    /\ last'.op = "upsert_farm" /\ ~last'.raised
    /\ LinkedTo(last'.source_name, last'.external_id) = {}
    /\ ~NonEmptyNameCounty(last'.farm_data) \/ Namesakes(last'.farm_data, 0) = {}

\* one entity and one link for it were appended, the link carrying the call's
\* source and external_id, and the call returned is_new = true
CreatedOne ==
    /\ last'.is_new
    /\ Len(farms') = Len(farms) + 1
    /\ SubSeq(farms', 1, Len(farms)) = farms
    /\ farms'[Len(farms')].id = last'.farm_id
    /\ last'.farm_id \notin FarmIds(farms)
    /\ Len(farm_sources') = Len(farm_sources) + 1
    /\ SubSeq(farm_sources', 1, Len(farm_sources)) = farm_sources
    /\ farm_sources'[Len(farm_sources')].farm_id = last'.farm_id
    /\ farm_sources'[Len(farm_sources')].source_id = SourceIdOf(last'.source_name)
    /\ farm_sources'[Len(farm_sources')].external_id = last'.external_id

\* the new entity stores every attribute of the candidate, a missing one as NULL
StoresCandidate ==
    \A k \in Keys :
        farms'[Len(farms')][k] =
            IF last'.farm_data[k] = ABSENT THEN NULL ELSE last'.farm_data[k]

\* C19 as stated: when neither stage 1 nor stage 2 matches, upsert creates
\* exactly one new entity whose stored attributes are exactly the candidate's
\* attributes (no key added, dropped or changed), creates exactly one
\* provenance link for it carrying the call's source and external_id, and
\* returns is_new = true.
C19_CreatedVerbatim ==
    [][NoStageMatches =>
        /\ CreatedOne
        /\ StoresCandidate
        /\ farms'[Len(farms')].external_id = NULL]_vars

\* C19 amended: when neither stage 1 nor stage 2 matches, upsert creates
\* exactly one new entity whose stored attributes are the candidate's
\* attributes, none dropped or changed, plus one added key, external_id, set to
\* the call's external_id; it creates exactly one provenance link for the
\* entity carrying the call's source and external_id, and returns is_new = true.
C19_CreatedWithExternalId ==
    [][NoStageMatches =>
        /\ CreatedOne
        /\ StoresCandidate
        /\ farms'[Len(farms')].external_id = last'.external_id]_vars

C19_Witness ==
    /\ LastUpsert /\ last.stage = 3 /\ last.is_new
    /\ last.farm_data["phone"] = "717-555-0100"
    /\ farms[last.farm_id].phone = "717-555-0100"
    /\ farms[last.farm_id].external_id = last.external_id
    /\ Len(farms) = 2

----------------------------------------------------------------------------
(* Properties of concurrent upserts (SpecConc) *)

\* the farms that no provenance link points to
Orphans == {farms[i].id : i \in DOMAIN farms} \ {farm_sources[i].farm_id : i \in DOMAIN farm_sources}

\* C14: when two upsert calls for the same (source, external_id) interleave and
\* the persistence layer rejects the later provenance-link insert with a
\* duplicate-key conflict, the resolver catches the conflict and retries as a
\* stage-1 lookup, so the later call returns the entity of the earlier call
\* with is_new = false and no second entity is left in the registry for that
\* candidate.
C14_ConflictRetried ==
    \A w, v \in Workers :
        (/\ w # v
         /\ workers[w].conflict
         /\ workers[v].pc = "returned"
         /\ workers[v].call.source_name = workers[w].call.source_name
         /\ workers[v].call.external_id = workers[w].call.external_id) =>
            /\ workers[w].pc # "raised"
            /\ workers[w].pc = "returned" =>
                  /\ workers[w].farm_id = workers[v].farm_id
                  /\ ~workers[w].is_new
            /\ Orphans = {}

\* every call has returned or has failed
Quiescent == \A w \in Workers : workers[w].pc \in {"idle", "returned", "raised"}

\* C21: after any sequence of upsert_farm calls, each of which either returns
\* or fails at any one of its persistence steps, every entity in the registry
\* has at least one provenance link (no entity exists without a source that
\* supplied it).
C21_EveryEntityLinked ==
    (Quiescent /\ \A w \in Workers : ~workers[w].conflict) => Orphans = {}

\* C22: after any sequence of sequential upsert_farm calls, no two distinct
\* entities have the same non-empty (name, county) pair.
C22_UniqueNameCounty ==
    \A i, j \in DOMAIN farms :
        (/\ i # j
         /\ farms[i].name \notin {NULL, ""}
         /\ farms[i].county \notin {NULL, ""})
            => ~(farms[i].name = farms[j].name /\ farms[i].county = farms[j].county)

DepSourceId == SourceIdOf(DEP_SOURCE_NAME)

\* C23: a DEP collection run is recorded with status success only if no
\* exception was raised while fetching, upserting the candidates and refreshing
\* the scores; whenever the batch body raises an Exception, whatever its
\* message, the run is recorded as failed and the source's last_successful_run
\* is not advanced.
C23_RaisedMeansFailed ==
    (Completed /\ DepLog /\ BodyRaised # {}) =>
        /\ OwnRun.status = "failed"
        /\ data_sources[DepSourceId].last_successful_run =
              InitSources[DepSourceId].last_successful_run

\* C24: for every run completed by the DEP collector, each processed candidate
\* is counted in exactly one of records_new and records_updated,
\* records_new + records_updated <= records_found, and the two sides are equal
\* whenever the run's status is success.
C24_CountsAddUp ==
    (Completed /\ DepLog) =>
        /\ OwnRun.records_new + OwnRun.records_updated =
              Cardinality({i \in DOMAIN log : log[i] = "upsert_farm"})
        /\ OwnRun.records_new + OwnRun.records_updated <= OwnRun.records_found
        /\ OwnRun.status = "success" =>
              OwnRun.records_new + OwnRun.records_updated = OwnRun.records_found

\* the entities that carry the candidate's name and county
Carriers(c) ==
    {farms[i].id : i \in {j \in DOMAIN farms :
        farms[j].name = c["name"] /\ farms[j].county = c["county"]}}

\* C25: when two upserts from different sources whose candidates have the same
\* non-empty (name, county) run concurrently with their persistence steps
\* interleaved, the registry ends with a single entity for that
\* (name, county), linked to both sources.
C25_ConcurrentSameNameCounty ==
    \A w, v \in Workers :
        (/\ workers[w].pc = "returned" /\ workers[v].pc = "returned"
         /\ workers[w].call.source_name # workers[v].call.source_name
         /\ NonEmptyNameCounty(workers[w].call.farm_data)
         /\ workers[w].call.farm_data["name"] = workers[v].call.farm_data["name"]
         /\ workers[w].call.farm_data["county"] = workers[v].call.farm_data["county"]) =>
            /\ Cardinality(Carriers(workers[w].call.farm_data)) = 1
            /\ \A e \in Carriers(workers[w].call.farm_data) :
                  /\ LinksOf(e, workers[w].source_id) # {}
                  /\ LinksOf(e, workers[v].source_id) # {}

====
